---- MODULE Spec2Model ----
(***************************************************************************)
(* GitHub PR Simplifier content script (github-pr-simplifier/content.js). *)
(*                                                                         *)
(* The page (pathname, discussion region, timeline items, the inserted     *)
(* simplified container), the script's module state (isSimplified,         *)
(* originalState) and the queue of pending setTimeout callbacks are the    *)
(* state.  Strings are TLA+ strings, so template-string keys are real      *)
(* concatenations.  Dates are records [nan, ms]: nan is JavaScript's       *)
(* Invalid Date, ms the value of getTime().                                *)
(***************************************************************************)
EXTENDS Integers, Sequences, FiniteSets, TLC

VARIABLES pathname,          \* window.location.pathname
          listening,         \* the top-level path guard passed and init() ran
          readyState,        \* document.readyState
          discussion,        \* a .js-discussion element is in the document
          discussionDisplay, \* discussion.style.display
          discussionHidden,  \* discussion.dataset.prSimplifierHidden is set
          timelineItems,     \* the .js-timeline-item nodes, in document order
          containers,        \* number of .pr-simplifier-container elements
          comments,          \* the sorted Turn list the container was built from
          tabs,              \* the .pr-simplifier-tab-btn elements
          panels,            \* the .pr-simplifier-tab-panel elements
          noComments,        \* number of .pr-simplifier-no-comments elements
          tabsDisplay,       \* .pr-simplifier-tabs style.display
          toggleLabel,       \* text of the .pr-simplifier-toggle button
          isSimplified,      \* module variable isSimplified
          originalState,     \* module variable originalState (<<>> is null)
          timers,            \* pending setTimeout(simplifyPR, 500) callbacks, FIFO
          toggles,           \* history: toggleView calls since the container was built
          lastRun,           \* history: how the latest simplifyPR call ended
          clock,             \* the time new Date() reads when a pass renders, in ms
          sortOrder,         \* the order the engine's sort gave each array whose
                             \* comparator is inconsistent: pairs <<array, result>>
          previous           \* history: the page instance a reload replaced (<<>> is none)

vars == <<pathname, listening, readyState, discussion, discussionDisplay,
          discussionHidden, timelineItems, containers, comments, tabs, panels,
          noComments, tabsDisplay, toggleLabel, isSimplified, originalState,
          timers, toggles, lastRun, clock, sortOrder, previous>>

pageVars == <<pathname, readyState, discussion, discussionDisplay,
              discussionHidden, timelineItems>>
viewVars == <<containers, comments, tabs, panels, noComments, tabsDisplay,
              toggleLabel>>

(***************************************************************************)
(* Bounds                                                                  *)
(***************************************************************************)
MaxEntries == 3   \* longest timeline drawn for the reconstruction pipeline
MaxTimers  == 2   \* most callbacks pending at once
MaxTries   == 2   \* the retry generation of a callback is counted up to here
MaxToggles == 2   \* toggleView calls followed per container
MaxSortEntries == 4   \* longest timeline drawn for the sort alone

Min(a, b) == IF a < b THEN a ELSE b

(***************************************************************************)
(* String helpers: String.prototype.trim, substring(0, n), includes,       *)
(* endsWith.                                                               *)
(***************************************************************************)
IsSpace(ch) == ch \in {" ", "\t", "\n"}

RECURSIVE TrimLeft(_)
TrimLeft(s) ==
  IF Len(s) > 0 /\ IsSpace(SubSeq(s, 1, 1)) THEN TrimLeft(SubSeq(s, 2, Len(s))) ELSE s

RECURSIVE TrimRight(_)
TrimRight(s) ==
  IF Len(s) > 0 /\ IsSpace(SubSeq(s, Len(s), Len(s)))
  THEN TrimRight(SubSeq(s, 1, Len(s) - 1)) ELSE s

Trim(s) == TrimRight(TrimLeft(s))

Substring0(s, n) == SubSeq(s, 1, Min(n, Len(s)))

Includes(s, sub) ==
  \E i \in 1..(Len(s) - Len(sub) + 1) : SubSeq(s, i, i + Len(sub) - 1) = sub

EndsWith(s, sub) ==
  Len(s) >= Len(sub) /\ SubSeq(s, Len(s) - Len(sub) + 1, Len(s)) = sub

(***************************************************************************)
(* Dates.  new Date(0) is the epoch-zero sentinel; new Date(text) of a     *)
(* text that is not a date is an Invalid Date, whose getTime() is NaN.     *)
(***************************************************************************)
ValidDate(ms) == [nan |-> FALSE, ms |-> ms]
InvalidDate   == [nan |-> TRUE, ms |-> 0]
EpochZero     == ValidDate(0)

MsPerMinute == 60000
MsPerHour   == 3600000
MsPerDay    == 86400000

\* new Date(timeText) on the timestamp strings the model draws.
ParseDate(timeText) ==
  CASE timeText = "1970-01-10T00:00:00Z" -> ValidDate(9 * MsPerDay)
    [] timeText = "1970-01-19T00:00:00Z" -> ValidDate(18 * MsPerDay)
    [] timeText = "1970-01-19T23:30:00Z" -> ValidDate(18 * MsPerDay + 23 * MsPerHour + 30 * MsPerMinute)
    [] OTHER -> InvalidDate

(***************************************************************************)
(* Timeline items.  A field that is an element lookup is a sequence: <<>>  *)
(* when no element matches, <<x>> when one does.                           *)
(*   isCommit  a commit/push marker matches (lines 70-72)                  *)
(*   author    textContent of the first matching author element            *)
(*   time      the relative-time / time-ago element: datetime attribute    *)
(*             ("" when missing) and textContent                           *)
(*   body      textContent of the .comment-body / .markdown-body element   *)
(*   html      innerHTML of the .comment-body element                      *)
(*   review    a .review-comment element is inside the item                *)
(***************************************************************************)
TimeEl(datetime, text) == <<[datetime |-> datetime, text |-> text]>>

CommentItem(author, time, body) ==
  [isCommit |-> FALSE, author |-> author, time |-> time, body |-> <<body>>,
   html |-> <<body>>, review |-> FALSE]

CommitItem(body) ==
  [isCommit |-> TRUE, author |-> <<>>, time |-> <<>>, body |-> body,
   html |-> <<>>, review |-> FALSE]

EmptyItem(body) ==
  [isCommit |-> FALSE, author |-> <<"alice">>, time |-> <<>>, body |-> body,
   html |-> <<>>, review |-> FALSE]

T1 == TimeEl("1970-01-10T00:00:00Z", "Jan 10")
T2 == TimeEl("1970-01-19T00:00:00Z", "Jan 19")
TNA == TimeEl("", "N/A")
TNow == TimeEl("", "now")

\* Two bodies of 101 characters with the same first 100.
Prefix100 ==
  "0123456789012345678901234567890123456789012345678901234567890123456789012345678901234567890123456789"
LongA == Prefix100 \o "A"
LongB == Prefix100 \o "B"

SampleComments ==
  { CommentItem(<<"alice">>, T1, "lgtm"),
    CommentItem(<<"alice">>, T1, " lgtm\n"),
    CommentItem(<<"alice">>, T2, "lgtm"),
    CommentItem(<<"bob">>, T1, "lgtm"),
    CommentItem(<<>>, T1, "lgtm"),
    CommentItem(<<"undefined">>, T1, "lgtm"),
    CommentItem(<<"alice">>, TNA, "lgtm"),
    CommentItem(<<"alice">>, <<>>, "lgtm"),
    CommentItem(<<"alice">>, T2, LongA),
    CommentItem(<<"alice">>, T2, LongB),
    CommentItem(<<"ci-now">>, <<>>, "ok"),
    CommentItem(<<"ci">>, TNow, "-ok") }

SampleCommits == { CommitItem(<<>>), CommitItem(<<"Merge branch main">>) }

SampleDropped == { EmptyItem(<<>>), EmptyItem(<<"  ">>) }

SampleItems == SampleComments \cup SampleCommits \cup SampleDropped

RECURSIVE SeqsUpTo(_, _)
SeqsUpTo(S, n) ==
  IF n = 0 THEN { <<>> }
  ELSE LET shorter == SeqsUpTo(S, n - 1)
       IN  shorter \cup { Append(s, x) : s \in { t \in shorter : Len(t) = n - 1 }, x \in S }

(***************************************************************************)
(* createSimplifiedView, first pass (lines 69-118): classify each item,    *)
(* extract its fields, drop repeated comments, keep page order.            *)
(***************************************************************************)
\* line 79: authorEl?.textContent?.trim()  (<<>> is undefined)
author(item) == IF item.author = <<>> THEN <<>> ELSE <<Trim(item.author[1])>>

\* line 81: datetime attribute, else textContent, else ''
timeText(item) ==
  IF item.time = <<>> THEN ""
  ELSE IF item.time[1].datetime # "" THEN item.time[1].datetime
  ELSE item.time[1].text

\* line 83
hasTextContentUntrimmed(item) == item.body # <<>> /\ Len(item.body[1]) > 0
hasTextContent(item) == item.body # <<>> /\ Len(Trim(item.body[1])) > 0

\* a value interpolated in a template string
Interpolate(opt) == IF opt = <<>> THEN "undefined" ELSE opt[1]

\* line 92
contentKey(item) ==
  Interpolate(author(item)) \o "-" \o timeText(item) \o "-"
    \o Substring0(Trim(item.body[1]), 100)

\* the robot-face character U+1F916 of the signature marker (not ASCII)
Robot == "{U+1F916}"

\* line 96
isBotComment(item) ==
  author(item) # <<>> /\ (Includes(author(item)[1], "[bot]") \/ Includes(author(item)[1], "bot"))

\* lines 99-102
isFromAgenthelper(item) ==
  LET bodyText == Trim(item.body[1])
  IN  \/ EndsWith(bodyText, "agenthelper")
      \/ Includes(bodyText, Robot \o " agenthelper")
      \/ (item.html # <<>> /\ Includes(item.html[1], "agenthelper"))

\* line 103
displayAuthor(item) ==
  IF isFromAgenthelper(item) THEN "agenthelper"
  ELSE IF author(item) = <<>> \/ author(item)[1] = "" THEN "Unknown"
  ELSE author(item)[1]

\* line 110
date(item) == IF item.time # <<>> THEN ParseDate(timeText(item)) ELSE EpochZero

\* lines 86-90; the cloned element is named by the index of its item
CommitEntry(index) == [type |-> "commit", element |-> index, index |-> index]

\* lines 105-115
CommentEntry(item, index) ==
  [type |-> "comment", element |-> index, author |-> displayAuthor(item),
   timestamp |-> timeText(item), date |-> date(item), index |-> index,
   isBot |-> (isBotComment(item) \/ isFromAgenthelper(item)),
   isReview |-> item.review, followingCommits |-> <<>>]

\* line 93 (negated): the key was seen earlier in this pass
NeverSeen(key, seenCommentBodies) == FALSE
AlreadySeen(key, seenCommentBodies) == key \in seenCommentBodies

\* lines 69-118; i is the 1-based position, the stored index is 0-based
RECURSIVE FirstPass(_, _, _, _)
FirstPass(items, i, seenCommentBodies, orderedItems) ==
  IF i > Len(items) THEN orderedItems
  ELSE LET item == items[i]
       IN  IF item.isCommit
           THEN FirstPass(items, i + 1, seenCommentBodies,
                          Append(orderedItems, CommitEntry(i - 1)))
           ELSE IF hasTextContent(item)
           THEN IF ~AlreadySeen(contentKey(item), seenCommentBodies)
                THEN FirstPass(items, i + 1, seenCommentBodies \cup {contentKey(item)},
                               Append(orderedItems, CommentEntry(item, i - 1)))
                ELSE FirstPass(items, i + 1, seenCommentBodies, orderedItems)
           ELSE FirstPass(items, i + 1, seenCommentBodies, orderedItems)

\* lines 64-67: orderedItems and seenCommentBodies are created by each pass
OrderedItemsStaleSeen(items) ==
  FirstPass(items, 1,
            IF previous = <<>> THEN {}
            ELSE { contentKey(items[i]) :
                     i \in { j \in 1..Len(items) : ~items[j].isCommit /\ hasTextContent(items[j]) } },
            <<>>)
OrderedItems(items) == FirstPass(items, 1, {}, <<>>)

(***************************************************************************)
(* Second pass (lines 121-133): attach each commit to the last comment.    *)
(***************************************************************************)
\* lines 128-130: lastComment is the last element of the grouped list
AttachToFirst(grouped, item) ==
  [grouped EXCEPT ![1].followingCommits = Append(@, item.element)]
AttachCommitInFront(grouped, item) ==
  [grouped EXCEPT ![Len(grouped)].followingCommits = <<item.element>> \o @]
AttachCommit(grouped, item) ==
  [grouped EXCEPT ![Len(grouped)].followingCommits = Append(@, item.element)]

RECURSIVE SecondPass(_, _, _)
SecondPass(orderedItems, i, grouped) ==
  IF i > Len(orderedItems) THEN grouped
  ELSE LET item == orderedItems[i]
           last == Len(grouped)
       IN  IF item.type = "comment"
           THEN SecondPass(orderedItems, i + 1, Append(grouped, item))
           ELSE IF last > 0
           THEN SecondPass(orderedItems, i + 1, AttachCommit(grouped, item))
           ELSE SecondPass(orderedItems, i + 1, grouped)

GroupedComments(items) == SecondPass(OrderedItems(items), 1, <<>>)

(***************************************************************************)
(* Sort (line 136): comments.sort((a, b) => b.date - a.date).              *)
(* The subtraction is NaN when either date is invalid, and sort reads a    *)
(* NaN result as 0.  Array.prototype.sort is stable when the comparator is *)
(* consistent; when it is not, the order is implementation-defined and any *)
(* permutation may come out.                                               *)
(***************************************************************************)
\* b.date - a.date
Compare(a, b) ==
  IF a.date.nan \/ b.date.nan THEN [nan |-> TRUE, v |-> 0]
  ELSE [nan |-> FALSE, v |-> b.date.ms - a.date.ms]

\* the comparator's result as sort reads it
CompareResult(a, b) == IF Compare(a, b).nan THEN 0 ELSE Compare(a, b).v

ConsistentComparator(s) ==
  \A i, j, k \in 1..Len(s) :
     (CompareResult(s[i], s[j]) = 0 /\ CompareResult(s[j], s[k]) = 0)
        => CompareResult(s[i], s[k]) = 0

\* x goes before the first element that the comparator puts after it
InsertSorted(sorted, x) ==
  LET after == { j \in 1..Len(sorted) : CompareResult(sorted[j], x) > 0 }
      pos   == IF after = {} THEN Len(sorted) + 1
               ELSE CHOOSE j \in after : \A k \in after : j <= k
  IN  SubSeq(sorted, 1, pos - 1) \o <<x>> \o SubSeq(sorted, pos, Len(sorted))

RECURSIVE StableSort(_, _, _)
StableSort(s, i, sorted) ==
  IF i > Len(s) THEN sorted ELSE StableSort(s, i + 1, InsertSorted(sorted, s[i]))

Reorderings(s) ==
  { [i \in 1..Len(s) |-> s[p[i]]] :
      p \in { q \in [1..Len(s) -> 1..Len(s)] : \A i, j \in 1..Len(s) : q[i] = q[j] => i = j } }

SortOutcomes(s) ==
  IF ConsistentComparator(s) THEN { StableSort(s, 1, <<>>) } ELSE Reorderings(s)

(***************************************************************************)
(* formatTimeAgo (lines 267-282).  now and the date are in milliseconds.   *)
(***************************************************************************)
MonthNames == <<"Jan", "Feb", "Mar", "Apr", "May", "Jun",
                "Jul", "Aug", "Sep", "Oct", "Nov", "Dec">>
MonthStart == <<0, 31, 59, 90, 120, 151, 181, 212, 243, 273, 304, 334, 365>>

\* toLocaleDateString('en-US', {month: 'short', day: 'numeric'}) for a date
\* of the year 1970, in UTC
ShortDate(ms) ==
  LET dayOfYear == ms \div MsPerDay
      month == CHOOSE m \in 1..12 : MonthStart[m] <= dayOfYear /\ dayOfYear < MonthStart[m + 1]
  IN  MonthNames[month] \o " " \o ToString(dayOfYear - MonthStart[month] + 1)

formatTimeAgoInclusive(d, now) ==
  IF ~d.nan /\ d.ms = 0 THEN ""
  ELSE IF d.nan THEN "Invalid Date"
  ELSE LET diffMs    == now - d.ms
           diffMins  == diffMs \div MsPerMinute
           diffHours == diffMs \div MsPerHour
           diffDays  == diffMs \div MsPerDay
       IN  IF diffMins < 1 THEN "just now"
           ELSE IF diffMins <= 60 THEN ToString(diffMins) \o "m ago"
           ELSE IF diffHours <= 24 THEN ToString(diffHours) \o "h ago"
           ELSE IF diffDays <= 7 THEN ToString(diffDays) \o "d ago"
           ELSE ShortDate(d.ms)
formatTimeAgo(d, now) ==
  IF ~d.nan /\ d.ms = 0 THEN ""
  ELSE IF d.nan THEN "Invalid Date"
  ELSE LET diffMs    == now - d.ms
           diffMins  == diffMs \div MsPerMinute
           diffHours == diffMs \div MsPerHour
           diffDays  == diffMs \div MsPerDay
       IN  IF diffMins < 1 THEN "just now"
           ELSE IF diffMins < 60 THEN ToString(diffMins) \o "m ago"
           ELSE IF diffHours < 24 THEN ToString(diffHours) \o "h ago"
           ELSE IF diffDays < 7 THEN ToString(diffDays) \o "d ago"
           ELSE ShortDate(d.ms)

(***************************************************************************)
(* Tab presenter (lines 161-205).                                          *)
(***************************************************************************)
\* lines 163-177
TabBtn(comment, idx, now) ==
  [active |-> (idx = 0), tabIndex |-> idx, author |-> comment.author,
   isBot |-> comment.isBot, time |-> formatTimeAgo(comment.date, now)]

\* line 194
commitsHeaderPlural(n) == ToString(n) \o " commits after this comment"
commitsHeader(n) ==
  ToString(n) \o " commit" \o (IF n > 1 THEN "s" ELSE "") \o " after this comment"

\* lines 182-204; commitsSection is <<>> when the panel has none
TabPanel(comment, idx) ==
  [active |-> (idx = 0), tabIndex |-> idx, element |-> comment.element,
   commitsSection |->
     IF Len(comment.followingCommits) > 0
     THEN <<[header |-> commitsHeader(Len(comment.followingCommits)),
             commits |-> comment.followingCommits]>>
     ELSE <<>>]

(***************************************************************************)
(* Path guards.  /\/pull\/\d+$/ and /\/pull\/\d+\/?$/ on the pathname.     *)
(***************************************************************************)
Digits == {"0", "1", "2", "3", "4", "5", "6", "7", "8", "9"}

AllDigits(s) == Len(s) > 0 /\ \A k \in 1..Len(s) : SubSeq(s, k, k) \in Digits

\* /\/pull\/\d+$/
MatchPull(p) ==
  \E i \in 1..(Len(p) - 6) :
     SubSeq(p, i, i + 5) = "/pull/" /\ AllDigits(SubSeq(p, i + 6, Len(p)))

\* /\/pull\/\d+\/?$/
MatchPullSlash(p) ==
  \/ MatchPull(p)
  \/ (EndsWith(p, "/") /\ MatchPull(SubSeq(p, 1, Len(p) - 1)))

\* lines 9-14: the script goes on to init() unless it returns here
PassesTopLevelGuard(p) == MatchPull(p) \/ MatchPullSlash(p)

Paths == { "/o/r/pull/12", "/o/r/pull/12/", "/o/r/pull/12/files" }

Displays == { "", "block" }

Events == { "turbo:load", "pjax:end" }

\* a callback scheduled by setTimeout(simplifyPR, 500): what scheduled it, and
\* how many retries in a row led to it (counted up to MaxTries)
Timer(src, tries) == [src |-> src, tries |-> tries]

\* the timelines that pages of the lifecycle specification carry
PageTimelines ==
  { <<>>,
    << CommitItem(<<>>) >>,
    << CommentItem(<<"alice">>, T1, "lgtm"), CommitItem(<<>>),
       CommentItem(<<"bob">>, T2, "lgtm") >> }

Nows == { 19 * MsPerDay }

(***************************************************************************)
(* Initial state: the script has run its top level (lines 5-17, 285).      *)
(***************************************************************************)
\* lines 19-25: the first callback is scheduled at once unless the document
\* is still loading
InitTimers(path, ready) ==
  IF PassesTopLevelGuard(path) /\ ready # "loading"
  THEN << Timer("load", 0) >> ELSE <<>>

InitAt(timelines, clocks) ==
  /\ pathname \in Paths
  /\ listening = PassesTopLevelGuard(pathname)
  /\ readyState \in {"loading", "complete"}
  /\ discussion \in BOOLEAN
  /\ timelineItems \in timelines
  /\ discussionDisplay \in Displays
  /\ discussion = FALSE => (timelineItems = <<>> /\ discussionDisplay = "")
  /\ discussionHidden = FALSE
  /\ containers = 0
  /\ comments = <<>>
  /\ tabs = <<>>
  /\ panels = <<>>
  /\ noComments = 0
  /\ tabsDisplay = ""
  /\ toggleLabel = ""
  /\ isSimplified = FALSE
  /\ originalState = <<>>
  /\ timers = InitTimers(pathname, readyState)
  /\ toggles = 0
  /\ lastRun = "none"
  /\ clock \in clocks
  /\ sortOrder = {}
  /\ previous = <<>>

InitWith(timelines) == InitAt(timelines, Nows)

Init == InitWith(PageTimelines)

(***************************************************************************)
(* createSimplifiedView (lines 53-233) on the discussion's timeline.       *)
(***************************************************************************)
\* lines 208-213: the 'No comments yet' div is appended when comments.length === 0
noCommentsNever(sorted) == 0
noCommentsDivs(sorted) == IF Len(sorted) = 0 THEN 1 ELSE 0

createSimplifiedViewKeepsFlag(sorted, now) ==
  /\ comments' = sorted
  /\ tabs' = [i \in 1..Len(sorted) |-> TabBtn(sorted[i], i - 1, now)]
  /\ panels' = [i \in 1..Len(sorted) |-> TabPanel(sorted[i], i - 1)]
  /\ noComments' = noCommentsDivs(sorted)
  /\ tabsDisplay' = ""
  /\ toggleLabel' = "Show Original View"
  /\ originalState' = << [discussionDisplay |-> discussionDisplay] >>
  /\ discussionDisplay' = "none"
  /\ discussionHidden' = TRUE
  /\ containers' = containers + 1
  /\ isSimplified' = isSimplified
  /\ toggles' = 0
createSimplifiedView(sorted, now) ==
  /\ comments' = sorted
  /\ tabs' = [i \in 1..Len(sorted) |-> TabBtn(sorted[i], i - 1, now)]
  /\ panels' = [i \in 1..Len(sorted) |-> TabPanel(sorted[i], i - 1)]
  /\ noComments' = noCommentsDivs(sorted)
  /\ tabsDisplay' = ""
  /\ toggleLabel' = "Show Original View"
  /\ originalState' = << [discussionDisplay |-> discussionDisplay] >>
  /\ discussionDisplay' = "none"
  /\ discussionHidden' = TRUE
  /\ containers' = containers + 1
  /\ isSimplified' = TRUE
  /\ toggles' = 0

(***************************************************************************)
(* simplifyPR (lines 32-51), run when the oldest pending timer fires.      *)
(***************************************************************************)
\* line 39: a simplified container is already in the document
NeverSimplified == FALSE
AlreadySimplified == containers > 0

\* lines 43-44: document.querySelector('.js-discussion') found nothing
DiscussionNeverMissing == FALSE
DiscussionMissing == ~discussion

\* line 136: one engine sorts one array one way.  Where the comparator is
\* consistent the result is the stable sort; where it is not, the order is the
\* engine's own, and the same on every call with the same array.
EngineOutcomes(grouped) ==
  IF \E pair \in sortOrder : pair[1] = grouped
  THEN { pair[2] : pair \in { q \in sortOrder : q[1] = grouped } }
  ELSE SortOutcomes(grouped)
Remember(grouped, sorted) ==
  IF ConsistentComparator(grouped) THEN sortOrder
  ELSE sortOrder \cup { <<grouped, sorted>> }

\* line 46: the callback that found no discussion schedules itself again
Retry(rest, fired) == Append(rest, Timer("retry", Min(fired.tries + 1, MaxTries)))

simplifyPR ==
  /\ timers # <<>>
  /\ LET fired == Head(timers)
         rest  == Tail(timers)
     IN  IF ~MatchPullSlash(pathname) \/ AlreadySimplified
         THEN /\ timers' = rest
              /\ lastRun' = IF ~MatchPullSlash(pathname) THEN "offpage" ELSE "skipped"
              /\ UNCHANGED <<pageVars, viewVars, listening, clock, sortOrder, previous, isSimplified,
                             originalState, toggles>>
         ELSE IF DiscussionMissing
         THEN /\ timers' = Retry(rest, fired)
              /\ lastRun' = "retry"
              /\ UNCHANGED <<pageVars, viewVars, listening, clock, sortOrder, previous, isSimplified,
                             originalState, toggles>>
         ELSE /\ lastRun' = "built"
              /\ \E sorted \in EngineOutcomes(GroupedComments(timelineItems)) :
                    /\ createSimplifiedView(sorted, clock)
                    /\ sortOrder' = Remember(GroupedComments(timelineItems), sorted)
              /\ timers' = rest
              /\ UNCHANGED <<pathname, listening, clock, previous, readyState, discussion, timelineItems>>

(***************************************************************************)
(* Page lifecycle: the events init() listens to (lines 19-30).             *)
(***************************************************************************)
\* a listener registered by init() runs setTimeout(simplifyPR, 500)
Schedule(src) == IF listening THEN Append(timers, Timer(src, 0)) ELSE timers

\* lines 21-22: the document finishes loading
DOMContentLoaded ==
  /\ readyState = "loading"
  /\ Len(timers) < MaxTimers
  /\ readyState' = "complete"
  /\ timers' = Schedule("load")
  /\ UNCHANGED <<pathname, listening, clock, sortOrder, previous, discussion, discussionDisplay, discussionHidden,
                 timelineItems, viewVars, isSimplified, originalState, toggles, lastRun>>

\* lines 28-29: turbo:load or pjax:end is dispatched on the page as it is
LoadEvent(ev) ==
  /\ listening
  /\ Len(timers) < MaxTimers
  /\ timers' = Schedule(ev)
  /\ UNCHANGED <<pageVars, viewVars, listening, clock, sortOrder, previous, isSimplified, originalState, toggles, lastRun>>

\* an in-page navigation replaces the page content (the simplified container
\* goes with it), keeps the script and its variables, and dispatches ev
Navigate(ev) ==
  /\ readyState # "loading"
  /\ Len(timers) < MaxTimers
  /\ pathname' \in Paths
  /\ discussion' \in BOOLEAN
  /\ timelineItems' \in PageTimelines
  /\ discussionDisplay' \in Displays
  /\ discussion' = FALSE => (timelineItems' = <<>> /\ discussionDisplay' = "")
  /\ discussionHidden' = FALSE
  /\ containers' = 0
  /\ comments' = <<>>
  /\ tabs' = <<>>
  /\ panels' = <<>>
  /\ noComments' = 0
  /\ tabsDisplay' = ""
  /\ toggleLabel' = ""
  /\ toggles' = 0
  /\ timers' = Schedule(ev)
  /\ UNCHANGED <<listening, clock, sortOrder, previous, readyState, isSimplified, originalState, lastRun>>

\* the host page renders the discussion region late
DiscussionAppears ==
  /\ ~discussion
  /\ discussion' = TRUE
  /\ timelineItems' \in PageTimelines
  /\ discussionDisplay' \in Displays
  /\ UNCHANGED <<pathname, listening, clock, sortOrder, previous, readyState, discussionHidden, viewVars,
                 isSimplified, originalState, timers, toggles, lastRun>>

(***************************************************************************)
(* switchTab (lines 235-245).                                              *)
(***************************************************************************)
\* classList.toggle('active', parseInt(el.dataset.tabIndex) === index) on each
switchTabAdd(elements, index) ==
  [i \in 1..Len(elements) |->
     [elements[i] EXCEPT !.active = (@ \/ elements[i].tabIndex = index)]]
switchTabFlip(elements, index) ==
  [i \in 1..Len(elements) |->
     [elements[i] EXCEPT !.active = IF elements[i].tabIndex = index THEN ~@ ELSE FALSE]]
switchTabOn(elements, index) ==
  [i \in 1..Len(elements) |-> [elements[i] EXCEPT !.active = (elements[i].tabIndex = index)]]

\* a click on the tab button created with idx = index
switchTabShows(index) ==
  /\ containers > 0
  /\ index \in 0..(Len(tabs) - 1)
  /\ tabs' = switchTabOn(tabs, index)
  /\ panels' = switchTabOn(panels, index)
  /\ isSimplified' = TRUE
  /\ UNCHANGED <<pageVars, listening, clock, sortOrder, previous, containers, comments, noComments, tabsDisplay,
                 toggleLabel, originalState, timers, toggles, lastRun>>
switchTab(index) ==
  /\ containers > 0
  /\ index \in 0..(Len(tabs) - 1)
  /\ tabs' = switchTabOn(tabs, index)
  /\ panels' = switchTabOn(panels, index)
  /\ UNCHANGED <<pageVars, listening, clock, sortOrder, previous, containers, comments, noComments, tabsDisplay,
                 toggleLabel, isSimplified, originalState, timers, toggles, lastRun>>

(***************************************************************************)
(* toggleView (lines 247-265), on the part of the state it can reach.      *)
(***************************************************************************)
View ==
  [isSimplified |-> isSimplified, tabsDisplay |-> tabsDisplay,
   discussionDisplay |-> discussionDisplay, toggleLabel |-> toggleLabel,
   discussionHidden |-> discussionHidden, timelineItems |-> timelineItems,
   comments |-> comments, tabs |-> tabs, panels |-> panels]

toggleViewKeepsLabel(v) ==
  IF v.isSimplified
  THEN [v EXCEPT !.tabsDisplay = "none", !.discussionDisplay = "",
                 !.toggleLabel = "Show Simplified View", !.isSimplified = FALSE]
  ELSE [v EXCEPT !.tabsDisplay = "", !.discussionDisplay = "none",
                 !.isSimplified = TRUE]
toggleViewResetsTab(v) ==
  IF v.isSimplified
  THEN [v EXCEPT !.tabsDisplay = "none", !.discussionDisplay = "",
                 !.toggleLabel = "Show Simplified View", !.isSimplified = FALSE]
  ELSE [v EXCEPT !.tabsDisplay = "", !.discussionDisplay = "none",
                 !.toggleLabel = "Show Original View", !.isSimplified = TRUE,
                 !.tabs = [i \in 1..Len(v.tabs) |-> [v.tabs[i] EXCEPT !.active = (i = 1)]],
                 !.panels = [i \in 1..Len(v.panels) |-> [v.panels[i] EXCEPT !.active = (i = 1)]]]
toggleViewKeepsTabs(v) ==
  IF v.isSimplified
  THEN [v EXCEPT !.discussionDisplay = "",
                 !.toggleLabel = "Show Simplified View", !.isSimplified = FALSE]
  ELSE [v EXCEPT !.tabsDisplay = "", !.discussionDisplay = "none",
                 !.toggleLabel = "Show Original View", !.isSimplified = TRUE]
toggleViewOn(v) ==
  IF v.isSimplified
  THEN [v EXCEPT !.tabsDisplay = "none", !.discussionDisplay = "",
                 !.toggleLabel = "Show Simplified View", !.isSimplified = FALSE]
  ELSE [v EXCEPT !.tabsDisplay = "", !.discussionDisplay = "none",
                 !.toggleLabel = "Show Original View", !.isSimplified = TRUE]

\* a click on the toggle button
toggleView ==
  /\ containers > 0
  /\ toggles < MaxToggles
  /\ LET v == toggleViewOn(View)
     IN  /\ isSimplified' = v.isSimplified
         /\ tabsDisplay' = v.tabsDisplay
         /\ discussionDisplay' = v.discussionDisplay
         /\ toggleLabel' = v.toggleLabel
         /\ discussionHidden' = v.discussionHidden
         /\ timelineItems' = v.timelineItems
         /\ comments' = v.comments
         /\ tabs' = v.tabs
         /\ panels' = v.panels
  /\ toggles' = toggles + 1
  /\ UNCHANGED <<pathname, listening, clock, sortOrder, previous, readyState, discussion, containers, noComments,
                 originalState, timers, lastRun>>

(***************************************************************************)
(* Specifications.                                                         *)
(***************************************************************************)
Next ==
  \/ DOMContentLoaded
  \/ \E ev \in Events : LoadEvent(ev)
  \/ \E ev \in Events : Navigate(ev)
  \/ DiscussionAppears
  \/ simplifyPR
  \/ \E index \in 0..MaxEntries : switchTab(index)
  \/ toggleView

Spec == Init /\ [][Next]_vars

\* The reconstruction pipeline alone: a conversation page whose discussion
\* carries any timeline of up to MaxEntries sample items, and the first
\* callback pending.
PipelineInit ==
  /\ InitWith(SeqsUpTo(SampleItems, MaxEntries))
  /\ pathname = "/o/r/pull/12"
  /\ readyState = "complete"
  /\ discussion
  /\ discussionDisplay = ""

PipelineNext == simplifyPR

PipelineSpec == PipelineInit /\ [][PipelineNext]_vars

(***************************************************************************)
(* Vocabulary of the properties.                                           *)
(***************************************************************************)
\* a reconstruction pass has built the container now on the page
Reconstructed == containers > 0

\* 0-based indexes of the timeline entries classified as comments
CommentEntryIndexes ==
  { i \in 0..(Len(timelineItems) - 1) :
      ~timelineItems[i + 1].isCommit /\ hasTextContent(timelineItems[i + 1]) }

\* 0-based indexes of the timeline entries classified as commit-events
CommitEntryIndexes ==
  { i \in 0..(Len(timelineItems) - 1) : timelineItems[i + 1].isCommit }

\* the triple (page-reported author, raw timestamp string, first 100
\* characters of the trimmed body)
Fingerprint(item) ==
  << author(item), timeText(item), Substring0(Trim(item.body[1]), 100) >>

\* indexes of the comment-entries that became Turns
SurvivorIndexes == { comments[t].index : t \in 1..Len(comments) }

\* the Turn's date is a real timestamp: neither invalid nor the sentinel
RealTimestamp(turn) == ~turn.date.nan /\ turn.date.ms # 0

(***************************************************************************)
(* C1.  The number of Turns equals the number of distinct Fingerprints     *)
(* among the comment-entries: two comment-entries collapse into one Turn   *)
(* exactly when their triples are equal.                                   *)
(***************************************************************************)
C1_TurnsAreDistinctFingerprints ==
  Reconstructed =>
    /\ Len(comments) = Cardinality({ Fingerprint(timelineItems[i + 1]) : i \in CommentEntryIndexes })
    /\ \A j \in CommentEntryIndexes :
         j \in SurvivorIndexes <=>
           ~\E i \in CommentEntryIndexes :
               i < j /\ Fingerprint(timelineItems[i + 1]) = Fingerprint(timelineItems[j + 1])

(***************************************************************************)
(* C2.  Every commit attached to a Turn is a commit-entry that occurred,   *)
(* in page order, strictly after the Turn's comment and strictly before    *)
(* the next comment-entry that survived deduplication (or the end).        *)
(***************************************************************************)
C2_CommitsBeforeNextSurvivor ==
  Reconstructed =>
    \A t \in 1..Len(comments) : \A k \in 1..Len(comments[t].followingCommits) :
       LET c == comments[t].followingCommits[k]
       IN  /\ c \in CommitEntryIndexes
           /\ comments[t].index < c
           /\ \A u \in SurvivorIndexes : u > comments[t].index => c < u

\* a Turn with an attached commit, and a surviving comment after that commit
C2_Witness ==
  /\ Reconstructed
  /\ \E t \in 1..Len(comments) :
       /\ Len(comments[t].followingCommits) > 0
       /\ \E u \in SurvivorIndexes : u > comments[t].followingCommits[1]

(***************************************************************************)
(* C3.  As stated: every commit attached to a Turn appeared after the      *)
(* Turn's comment and before the next entry classified as a comment,       *)
(* whether or not the Deduplicator discards that entry.                    *)
(***************************************************************************)
C3_CommitsBeforeNextClassifiedComment ==
  Reconstructed =>
    \A t \in 1..Len(comments) : \A k \in 1..Len(comments[t].followingCommits) :
       LET c == comments[t].followingCommits[k]
       IN  /\ comments[t].index < c
           /\ \A j \in CommentEntryIndexes : j > comments[t].index => c < j

\* the entry's key repeats the key of an earlier comment-entry
RepeatsEarlierKey(j) ==
  \E i \in CommentEntryIndexes :
     i < j /\ contentKey(timelineItems[i + 1]) = contentKey(timelineItems[j + 1])

(***************************************************************************)
(* C3, amended.  Every commit attached to a Turn appeared after the Turn's *)
(* comment; the Turn's comment is not a repeat for the Deduplicator, and   *)
(* every comment-entry between it and the commit is one: a discarded       *)
(* repeat does not end the Turn.                                           *)
(***************************************************************************)
C3_OnlyDiscardedRepeatsIntervene ==
  Reconstructed =>
    \A t \in 1..Len(comments) : \A k \in 1..Len(comments[t].followingCommits) :
       LET c == comments[t].followingCommits[k]
       IN  /\ comments[t].index < c
           /\ ~RepeatsEarlierKey(comments[t].index)
           /\ \A j \in CommentEntryIndexes :
                (comments[t].index < j /\ j < c) => RepeatsEarlierKey(j)

\* a commit attached to a Turn across a discarded repeat
C3_Witness ==
  /\ Reconstructed
  /\ \E t \in 1..Len(comments) : \E k \in 1..Len(comments[t].followingCommits) :
       \E j \in CommentEntryIndexes :
          /\ comments[t].index < j
          /\ j < comments[t].followingCommits[k]
          /\ RepeatsEarlierKey(j)

\* a >= b on two dates as JavaScript compares them (false when either is NaN)
DateGeq(a, b) == ~a.nan /\ ~b.nan /\ a.ms >= b.ms

(***************************************************************************)
(* C4.  The Turn list is newest-first: each Turn's parsed timestamp is     *)
(* greater than or equal to the next one's, and every Turn carrying the    *)
(* epoch-zero sentinel comes after every Turn with a real timestamp.       *)
(***************************************************************************)
C4_SortedNewestFirst ==
  Reconstructed =>
    /\ \A t \in 1..(Len(comments) - 1) : DateGeq(comments[t].date, comments[t + 1].date)
    /\ \A t, u \in 1..Len(comments) :
         (comments[t].date = EpochZero /\ RealTimestamp(comments[u])) => u < t

\* the Turn's timestamp string is present (a time element exists) but does
\* not parse
UnparsableTimestamp(turn) ==
  /\ timelineItems[turn.index + 1].time # <<>>
  /\ ParseDate(turn.timestamp).nan

(***************************************************************************)
(* C5.  A comment whose timestamp string is present but cannot be parsed   *)
(* gets the epoch-zero sentinel: its Turn comes after every Turn with a    *)
(* valid timestamp and its tab shows an empty relative time.               *)
(***************************************************************************)
C5_UnparsableTimestampIsSentinel ==
  Reconstructed =>
    \A t \in 1..Len(comments) :
       UnparsableTimestamp(comments[t]) =>
         /\ comments[t].date = EpochZero
         /\ tabs[t].time = ""
         /\ \A u \in 1..Len(comments) : RealTimestamp(comments[u]) => u < t

(***************************************************************************)
(* C6.  When the discussion container is absent the engine retries once    *)
(* and then stops: no pending callback is ever the retry of a retry.       *)
(***************************************************************************)
C6_AtMostOneRetry == \A i \in 1..Len(timers) : timers[i].tries <= 1

(***************************************************************************)
(* C7.  At most one simplified container exists at any time, and a         *)
(* callback that runs while a container exists leaves the container, its   *)
(* Turn list, the active tab and the view state as they are.               *)
(***************************************************************************)
C7_ReentrancyGuard ==
  /\ [](containers <= 1)
  /\ [][(simplifyPR /\ containers > 0) =>
          UNCHANGED <<pageVars, viewVars, isSimplified, originalState, toggles>>]_vars

\* a callback has just been skipped on a page whose container the user had
\* switched to the original view
C7_Witness ==
  /\ lastRun = "skipped"
  /\ containers = 1
  /\ ~isSimplified
  /\ Len(comments) > 1

ActiveTabs == { i \in 1..Len(tabs) : tabs[i].active }
ActivePanels == { i \in 1..Len(panels) : panels[i].active }

(***************************************************************************)
(* C8.  Whenever a container with a non-empty Turn list exists, exactly    *)
(* one tab and exactly one panel are active and they have the same index;  *)
(* right after reconstruction that index is 0.                             *)
(***************************************************************************)
C8_OneActiveTab ==
  /\ []((Reconstructed /\ Len(comments) > 0) =>
          /\ Cardinality(ActiveTabs) = 1
          /\ ActivePanels = ActiveTabs
          /\ \A i \in ActiveTabs : tabs[i].tabIndex = panels[i].tabIndex)
  /\ [][(containers = 0 /\ containers' > 0 /\ Len(comments') > 0) =>
          (tabs'[1].active /\ tabs'[1].tabIndex = 0 /\ panels'[1].active)]_vars

\* another tab than the first is active, after a view toggle
C8_Witness ==
  /\ Reconstructed
  /\ toggles > 0
  /\ \E i \in ActiveTabs : i > 1

(***************************************************************************)
(* C9.  Toggle round trip: from the simplified state, two toggles give     *)
(* back the same visibility of the original content and of the tab UI, the *)
(* same toggle label, Turn list and active tab; after any even number of   *)
(* toggles the view is as reconstruction left it.                          *)
(***************************************************************************)
C9_ToggleRoundTrip ==
  Reconstructed =>
    /\ isSimplified => toggleViewOn(toggleViewOn(View)) = View
    /\ toggles % 2 = 0 =>
         /\ isSimplified
         /\ discussionDisplay = "none"
         /\ tabsDisplay = ""
         /\ toggleLabel = "Show Original View"

\* back in the simplified view after two toggles
C9_Witness ==
  /\ Reconstructed
  /\ toggles = 2
  /\ Len(comments) > 1

(***************************************************************************)
(* C10.  A view toggle never deletes or alters the original discussion     *)
(* content, the Turn list, the attached commits or which tab is active.    *)
(***************************************************************************)
C10_ToggleFrame ==
  [][toggles' = toggles + 1 =>
       UNCHANGED <<discussion, timelineItems, discussionHidden, containers,
                   comments, tabs, panels, noComments>>]_vars

\* toggled twice with a tab other than the first active and a commit attached
C10_Witness ==
  /\ Reconstructed
  /\ toggles >= 2
  /\ \E i \in ActiveTabs : i > 1
  /\ \E t \in 1..Len(comments) : Len(comments[t].followingCommits) > 0

(***************************************************************************)
(* A conversation that is reloaded in place: the page is replaced by a     *)
(* fresh copy with the same raw entries (a turbo visit to the same URL),   *)
(* the script and its module variables stay, and a new pass runs.          *)
(***************************************************************************)
\* a comment signed by the agent: the markdown signature is rendered as
\* emphasis, so the text reads "<robot> agenthelper"
SignedItem ==
  [CommentItem(<<"bob">>, T2, "CI failed\n" \o Robot \o " agenthelper")
     EXCEPT !.html = <<"<p>CI failed</p><p>" \o Robot \o " <em>agenthelper</em></p>">>]

\* a person writing about the tool
MentionItem == CommentItem(<<"carol">>, T2, "I ran agenthelper on my fork")

RepeatItems ==
  { CommentItem(<<"alice">>, T1, "lgtm"),
    CommentItem(<<"alice">>, TNA, "lgtm"),
    SignedItem,
    MentionItem,
    CommitItem(<<>>) }

RepeatInit ==
  /\ InitWith(SeqsUpTo(RepeatItems, MaxEntries))
  /\ pathname = "/o/r/pull/12"
  /\ readyState = "complete"
  /\ discussion
  /\ discussionDisplay = ""

\* the page instance is replaced by a fresh copy of itself and ev is dispatched
Reinstance(ev) ==
  /\ Reconstructed
  /\ Len(timers) < MaxTimers
  /\ previous' = << [comments |-> comments, isSimplified |-> isSimplified,
                     activeTabs |-> ActiveTabs] >>
  /\ discussionDisplay' = ""
  /\ discussionHidden' = FALSE
  /\ containers' = 0
  /\ comments' = <<>>
  /\ tabs' = <<>>
  /\ panels' = <<>>
  /\ noComments' = 0
  /\ tabsDisplay' = ""
  /\ toggleLabel' = ""
  /\ toggles' = 0
  /\ timers' = Schedule(ev)
  /\ UNCHANGED <<pathname, listening, clock, sortOrder, readyState, discussion,
                 timelineItems, isSimplified, originalState, lastRun>>

RepeatNext ==
  \/ simplifyPR
  \/ toggleView
  \/ \E index \in 0..MaxEntries : switchTab(index)
  \/ \E ev \in Events : Reinstance(ev)

RepeatSpec == RepeatInit /\ [][RepeatNext]_vars

(***************************************************************************)
(* C11.  Every reconstruction pass that builds the container ends in the   *)
(* simplified state: the view flag is simplified, the original discussion  *)
(* is hidden, the tab strip is shown, the toggle reads 'Show Original      *)
(* View' and the first tab and panel are the active ones, whatever view    *)
(* state and active tab the previous page instance was left in.            *)
(***************************************************************************)
C11_PassEndsSimplified ==
  [][containers' = containers + 1 =>
       /\ isSimplified'
       /\ discussionDisplay' = "none"
       /\ discussionHidden'
       /\ tabsDisplay' = ""
       /\ toggleLabel' = "Show Original View"
       /\ \A i \in 1..Len(tabs') :
            /\ tabs'[i].active = (i = 1)
            /\ panels'[i].active = (i = 1)]_vars

\* a pass has rebuilt a page that was left in the original view with a later
\* tab active
C11_Witness ==
  /\ Reconstructed
  /\ lastRun = "built"
  /\ toggles = 0
  /\ isSimplified
  /\ previous # <<>>
  /\ ~previous[1].isSimplified
  /\ \E i \in previous[1].activeTabs : i > 1
  /\ Len(tabs) > 1 /\ tabs[1].active

(***************************************************************************)
(* C12.  Switching tabs is idempotent: after a click on tab index, a       *)
(* second click on the same index leaves the active flags of the tabs and  *)
(* panels as the first click set them; and a click on the tab that is      *)
(* already the active one changes no flag.                                 *)
(***************************************************************************)
C12_SwitchTabIdempotent ==
  /\ [][\A index \in 0..MaxEntries :
          switchTab(index) =>
            /\ switchTabOn(tabs', index) = tabs'
            /\ switchTabOn(panels', index) = panels']_vars
  /\ [](Reconstructed =>
          \A index \in 0..(Len(tabs) - 1) :
             tabs[index + 1].active =>
               /\ switchTabOn(tabs, index) = tabs
               /\ switchTabOn(panels, index) = panels)

\* the last of several tabs has been selected in the simplified view
C12_Witness ==
  /\ Reconstructed
  /\ isSimplified
  /\ toggles = 0
  /\ Len(tabs) > 1
  /\ ActiveTabs = { Len(tabs) }
  /\ ActivePanels = { Len(tabs) }

(***************************************************************************)
(* C13.  A tab switch changes only the active flags of the tabs and        *)
(* panels: the view flag, the visibility of the original discussion and of *)
(* the tab strip, the toggle label, the Turn list and its order, the tabs' *)
(* other fields and the number of containers stay as they were, and no     *)
(* reconstruction pass is scheduled or run.                                *)
(***************************************************************************)
C13_SwitchTabFrame ==
  [][(containers > 0 /\ containers' = containers /\ (tabs' # tabs \/ panels' # panels)) =>
       /\ UNCHANGED <<isSimplified, originalState, discussionDisplay, discussionHidden,
                      tabsDisplay, toggleLabel, comments, noComments, timelineItems,
                      timers, lastRun>>
       /\ Len(tabs') = Len(tabs)
       /\ Len(panels') = Len(panels)
       /\ \A i \in 1..Len(tabs) :
            /\ [tabs'[i] EXCEPT !.active = tabs[i].active] = tabs[i]
            /\ [panels'[i] EXCEPT !.active = panels[i].active] = panels[i]]_vars

\* a later tab was selected while the original view was showing
C13_Witness ==
  /\ Reconstructed
  /\ ~isSimplified
  /\ discussionDisplay = ""
  /\ toggleLabel = "Show Simplified View"
  /\ lastRun = "built"
  /\ ActiveTabs = { 2 }
  /\ ActivePanels = { 2 }
  /\ timers = <<>>

(***************************************************************************)
(* C14.  While the discussion container is absent, a reconstruction        *)
(* attempt leaves the page as it was: no simplified container is inserted, *)
(* no display style or hidden marker is written, nothing of the view is    *)
(* built, and the view flag is not assigned.  A page without a discussion  *)
(* therefore carries no container and no hidden marker.                    *)
(***************************************************************************)
C14_AbsentDiscussionUntouched ==
  /\ [][(simplifyPR /\ ~discussion) =>
          /\ UNCHANGED <<pageVars, viewVars, isSimplified, originalState>>
          /\ containers' = 0]_vars
  /\ [](~discussion => (containers = 0 /\ ~discussionHidden /\ discussionDisplay = ""))

\* an attempt and its retry have both run on a page that has no discussion yet
C14_Witness ==
  /\ ~discussion
  /\ lastRun = "retry"
  /\ timers # <<>>
  /\ Head(timers).src = "retry"
  /\ Head(timers).tries >= 2
  /\ containers = 0
  /\ ~isSimplified

\* the timeline entry a Turn was made from
EntryOf(turn) == timelineItems[turn.index + 1]

\* signal (a): the page-reported author name contains the bot marker
BotNamed(item) == author(item) # <<>> /\ Includes(author(item)[1], "bot")

\* signal (b): the body text contains the agent-signature marker, in its
\* rendered or in its markdown spelling
CarriesSignature(item) ==
  \/ Includes(Trim(item.body[1]), Robot \o " agenthelper")
  \/ Includes(Trim(item.body[1]), Robot \o " *agenthelper*")

(***************************************************************************)
(* C15.  A Turn is flagged automated exactly when its comment's author     *)
(* name contains the bot marker or its body carries the agent-signature    *)
(* marker; a comment with neither signal is not flagged.                   *)
(***************************************************************************)
C15_AutomatedIffSignal ==
  Reconstructed =>
    \A t \in 1..Len(comments) :
       comments[t].isBot <=> (BotNamed(EntryOf(comments[t])) \/ CarriesSignature(EntryOf(comments[t])))

(***************************************************************************)
(* C16.  A Turn's displayed author is 'agenthelper' when its comment's     *)
(* body carries the agent-signature marker, whatever the page reports;     *)
(* otherwise it is the page-reported author, or 'Unknown' when the page    *)
(* reports none.                                                           *)
(***************************************************************************)
C16_DisplayedAuthor ==
  Reconstructed =>
    \A t \in 1..Len(comments) :
       LET item == EntryOf(comments[t])
       IN  comments[t].author =
             IF CarriesSignature(item) THEN "agenthelper"
             ELSE IF author(item) = <<>> THEN "Unknown"
             ELSE author(item)[1]

(***************************************************************************)
(* The sort alone: timelines of comments by different authors, two of them *)
(* with the same timestamp, one newer, one whose timestamp does not parse. *)
(***************************************************************************)
SortItems ==
  { CommentItem(<<"alice">>, T1, "one"),
    CommentItem(<<"bob">>, T1, "two"),
    CommentItem(<<"carol">>, T2, "three"),
    CommentItem(<<"dave">>, TNA, "four") }

SortInit ==
  /\ InitWith(SeqsUpTo(SortItems, MaxSortEntries))
  /\ pathname = "/o/r/pull/12"
  /\ readyState = "complete"
  /\ discussion
  /\ discussionDisplay = ""

SortNext == simplifyPR

SortSpec == SortInit /\ [][SortNext]_vars

C18_EmptyTurnListPlaceholder ==
  (Reconstructed /\ CommentEntryIndexes = {}) =>
    /\ comments = <<>>
    /\ noComments = 1
    /\ tabs = <<>>
    /\ panels = <<>>

\* a timeline of commit-events only has been reconstructed
C18_Witness ==
  /\ Reconstructed
  /\ Len(timelineItems) > 1
  /\ CommitEntryIndexes = 0..(Len(timelineItems) - 1)
  /\ comments = <<>>
  /\ noComments = 1

(***************************************************************************)
(* The time label alone: one comment, rendered at a clock that stands at   *)
(* each band boundary after (and before) the comment's timestamp.          *)
(***************************************************************************)
\* elapsed times now - timestamp, in ms, around every boundary of the bands
Elapsed ==
  { 0 - MsPerMinute, 0, 1, MsPerMinute - 1, MsPerMinute, MsPerMinute + 1,
    2 * MsPerMinute - 1, 2 * MsPerMinute,
    59 * MsPerMinute + 59000, MsPerHour - 1, MsPerHour, MsPerHour + 1,
    2 * MsPerHour - 1, 2 * MsPerHour,
    23 * MsPerHour + 59 * MsPerMinute + 59000, MsPerDay - 1, MsPerDay, MsPerDay + 1,
    2 * MsPerDay - 1, 2 * MsPerDay,
    6 * MsPerDay + 23 * MsPerHour + 59 * MsPerMinute + 59000,
    7 * MsPerDay - 1, 7 * MsPerDay, 7 * MsPerDay + 1, 10 * MsPerDay }

\* the clock, counted from the timestamp of T1
TimeClocks == { 9 * MsPerDay + d : d \in Elapsed }

TimeTimelines ==
  { << CommentItem(<<"alice">>, time, "lgtm") >> :
       time \in { T1, T2, TimeEl("1970-01-19T23:30:00Z", "Jan 19"), TNA, <<>> } }

TimeInit ==
  /\ InitAt(TimeTimelines, TimeClocks)
  /\ pathname = "/o/r/pull/12"
  /\ readyState = "complete"
  /\ discussion
  /\ discussionDisplay = ""

TimeNext == simplifyPR

TimeSpec == TimeInit /\ [][TimeNext]_vars

\* the label the bands give a timestamp ms read at time now
Humanized(ms, now) ==
  LET d == now - ms
  IN  IF ms = 0 THEN ""
      ELSE IF d < MsPerMinute THEN "just now"
      ELSE IF d < 60 * MsPerMinute THEN ToString(d \div MsPerMinute) \o "m ago"
      ELSE IF d < 24 * MsPerHour THEN ToString(d \div MsPerHour) \o "h ago"
      ELSE IF d < 7 * MsPerDay THEN ToString(d \div MsPerDay) \o "d ago"
      ELSE ShortDate(ms)

(***************************************************************************)
(* C19.  The time label of a Turn whose date is a time value is decided by *)
(* the elapsed time d = now - timestamp: the epoch-zero sentinel gives the *)
(* empty string; otherwise d < 1 minute gives 'just now', d < 60 minutes   *)
(* '{n}m ago', d < 24 hours '{n}h ago', d < 7 days '{n}d ago' with n the   *)
(* whole elapsed units, and anything older the short date.  The bands meet *)
(* without gap or overlap: 59 min 59 s is '59m ago', exactly 60 min is     *)
(* '1h ago', exactly 24 h is '1d ago'.                                     *)
(***************************************************************************)
C19_TimeAgoBands ==
  Reconstructed =>
    \A t \in 1..Len(tabs) :
       ~comments[t].date.nan =>
         LET ms == comments[t].date.ms
             d  == clock - ms
         IN  /\ tabs[t].time = Humanized(ms, clock)
             /\ (ms # 0 /\ d = 59 * MsPerMinute + 59000) => tabs[t].time = "59m ago"
             /\ (ms # 0 /\ d = 60 * MsPerMinute) => tabs[t].time = "1h ago"
             /\ (ms # 0 /\ d = 24 * MsPerHour) => tabs[t].time = "1d ago"
             /\ (ms # 0 /\ d = 7 * MsPerDay - 1) => tabs[t].time = "6d ago"

\* a comment has been rendered exactly 60 minutes after its timestamp
C19_Witness ==
  /\ Reconstructed
  /\ Len(tabs) = 1
  /\ comments[1].date = ValidDate(clock - MsPerHour)
  /\ tabs[1].time = "1h ago"

(***************************************************************************)
(* C20.  A pass over the raw entries a previous pass has already processed *)
(* yields the same ordered Turn list, with the same attached commits,      *)
(* display authors and automated flags: nothing the first pass left (its   *)
(* seen keys, its last comment, the view flag, the saved state) reaches    *)
(* the second.                                                             *)
(***************************************************************************)
C20_SecondPassSameTurns ==
  (Reconstructed /\ previous # <<>>) => comments = previous[1].comments

\* the page was reloaded from the original view and its three entries, a
\* commit between two comments, have been processed a second time
C20_Witness ==
  /\ Reconstructed
  /\ previous # <<>>
  /\ ~previous[1].isSimplified
  /\ Len(timelineItems) = 3
  /\ Len(comments) = 2
  /\ \E t \in 1..2 : comments[t].followingCommits # <<>>
  /\ \E t \in 1..2 : comments[t].isBot
  /\ comments = previous[1].comments

\* the comment-entries that are the first, in page order, to carry their
\* Fingerprint
FirstOccurrences ==
  { j \in CommentEntryIndexes :
      ~\E i \in CommentEntryIndexes :
          i < j /\ Fingerprint(timelineItems[i + 1]) = Fingerprint(timelineItems[j + 1]) }

(***************************************************************************)
(* C21.  Deduplication keeps, of each Fingerprint, the first comment-entry *)
(* in page order and no later one; the entries handed to the second pass   *)
(* are those comment-entries and every commit-entry, in page order; and    *)
(* the Turns are made from exactly those comment-entries.                  *)
(***************************************************************************)
C21_DedupKeepsFirstInOrder ==
  Reconstructed =>
    LET orderedItems == OrderedItems(timelineItems)
        positions == 1..Len(orderedItems)
    IN  /\ { orderedItems[k].index : k \in { p \in positions : orderedItems[p].type = "comment" } }
             = FirstOccurrences
        /\ { orderedItems[k].index : k \in { p \in positions : orderedItems[p].type = "commit" } }
             = CommitEntryIndexes
        /\ \A k \in positions : k < Len(orderedItems) =>
             orderedItems[k].index < orderedItems[k + 1].index
        /\ SurvivorIndexes = FirstOccurrences

(***************************************************************************)
(* Classification and grouping alone: timelines of two comments, commits   *)
(* with and without body text, and entries with no or blank body text.     *)
(***************************************************************************)
GroupItems ==
  { CommentItem(<<"alice">>, T1, "lgtm"),
    CommentItem(<<"bob">>, T2, "lgtm") }
    \cup SampleCommits \cup SampleDropped

GroupInit ==
  /\ InitWith(SeqsUpTo(GroupItems, MaxEntries))
  /\ pathname = "/o/r/pull/12"
  /\ readyState = "complete"
  /\ discussion
  /\ discussionDisplay = ""

GroupNext == simplifyPR

GroupSpec == GroupInit /\ [][GroupNext]_vars

\* the entry has body text that is not only white space
HasBody(item) == item.body # <<>> /\ Trim(item.body[1]) # ""

\* the entry matches no commit marker and has no body text
Dropped(item) == ~item.isCommit /\ ~HasBody(item)
NotDropped(item) == ~Dropped(item)

\* what a Turn list shows of each Turn apart from entry positions
Shape(turns) ==
  [t \in 1..Len(turns) |->
     [author |-> turns[t].author, timestamp |-> turns[t].timestamp,
      isBot |-> turns[t].isBot, commits |-> Len(turns[t].followingCommits)]]

(***************************************************************************)
(* C22.  Classification precedence: an entry that matches a commit marker  *)
(* is a commit-event even when it has body text, so no Turn is made from   *)
(* it and it can be attached to a Turn; an entry that matches none is a    *)
(* comment exactly when its trimmed body is non-empty; every other entry   *)
(* is dropped: no Turn is made from it, it is attached nowhere, and the    *)
(* Turns and their commit counts are those of the timeline without it.     *)
(***************************************************************************)
C22_ClassificationPrecedence ==
  Reconstructed =>
    LET orderedItems == OrderedItems(timelineItems)
        grouped == GroupedComments(timelineItems)
    IN  /\ \A k \in 1..Len(orderedItems) :
             LET item == timelineItems[orderedItems[k].index + 1]
             IN  /\ (orderedItems[k].type = "commit") <=> item.isCommit
                 /\ (orderedItems[k].type = "comment") <=> (~item.isCommit /\ HasBody(item))
        /\ \A i \in 1..Len(timelineItems) :
             timelineItems[i].isCommit => \E k \in 1..Len(orderedItems) : orderedItems[k].index = i - 1
        /\ \A t \in 1..Len(comments) :
             /\ ~EntryOf(comments[t]).isCommit
             /\ HasBody(EntryOf(comments[t]))
             /\ \A k \in 1..Len(comments[t].followingCommits) :
                  timelineItems[comments[t].followingCommits[k] + 1].isCommit
        /\ Len(comments) = Len(grouped)
        /\ { comments[t] : t \in 1..Len(comments) } = { grouped[t] : t \in 1..Len(grouped) }
        /\ Shape(grouped) = Shape(GroupedComments(SelectSeq(timelineItems, NotDropped)))

\* a commit-event with body text is attached to the comment before it, across
\* an entry that was dropped
C22_Witness ==
  /\ Reconstructed
  /\ Len(timelineItems) = 3
  /\ HasBody(timelineItems[1]) /\ ~timelineItems[1].isCommit
  /\ Dropped(timelineItems[2])
  /\ timelineItems[3].isCommit /\ HasBody(timelineItems[3])
  /\ Len(comments) = 1
  /\ comments[1].followingCommits = << 2 >>

(***************************************************************************)
(* C23.  A Turn's panel has a commits sub-section exactly when the Turn    *)
(* has at least one attached commit; the sub-section lists the attached    *)
(* commits, the number in its header is their count, and the word after it *)
(* is 'commit' for one and 'commits' for more than one.                    *)
(***************************************************************************)
C23_CommitsSection ==
  Reconstructed =>
    /\ Len(panels) = Len(comments)
    /\ \A t \in 1..Len(panels) :
         LET n == Len(comments[t].followingCommits)
         IN  /\ (panels[t].commitsSection # <<>>) <=> (n >= 1)
             /\ n >= 1 =>
                  /\ panels[t].commitsSection[1].commits = comments[t].followingCommits
                  /\ panels[t].commitsSection[1].header =
                       ToString(n) \o (IF n = 1 THEN " commit" ELSE " commits")
                         \o " after this comment"

\* a panel lists two commits under a plural header
C23_Witness ==
  /\ Reconstructed
  /\ \E t \in 1..Len(panels) :
       /\ panels[t].commitsSection # <<>>
       /\ Len(panels[t].commitsSection[1].commits) = 2
       /\ panels[t].commitsSection[1].header = "2 commits after this comment"

(***************************************************************************)
(* C24.  After an in-page navigation (turbo:load or pjax:end) that lands   *)
(* on a conversation page with its discussion present and no simplified    *)
(* container, a reconstruction pass follows, whatever page the script was  *)
(* first loaded on.  A pass runs only from a pending setTimeout callback,  *)
(* so on every finite run the navigation must leave one pending.           *)
(***************************************************************************)
C24_NavigationSchedulesPass ==
  [][\A ev \in Events :
       (Navigate(ev) /\ MatchPullSlash(pathname') /\ discussion' /\ containers' = 0)
         => timers' # <<>>]_vars

(***************************************************************************)
(* C25.  View-state coherence: while a simplified container exists, the    *)
(* view flag is simplified if and only if the original discussion is       *)
(* hidden, if and only if the tab strip is visible, if and only if the     *)
(* toggle reads 'Show Original View'; otherwise it reads 'Show Simplified  *)
(* View'.                                                                  *)
(***************************************************************************)
C25_ViewStateCoherent ==
  Reconstructed =>
    /\ isSimplified <=> (discussionDisplay = "none")
    /\ isSimplified <=> (tabsDisplay # "none")
    /\ isSimplified <=> (toggleLabel = "Show Original View")
    /\ ~isSimplified <=> (toggleLabel = "Show Simplified View")

\* the view has been toggled once, to the original
C25_Witness ==
  /\ Reconstructed
  /\ toggles = 1
  /\ ~isSimplified
  /\ discussionDisplay # "none"
  /\ tabsDisplay = "none"
  /\ toggleLabel = "Show Simplified View"

\* the places <<Turn, position>> of the attached-commit lists
Attachments ==
  { <<t, k>> \in (1..Len(comments)) \X (1..Len(timelineItems)) :
      k <= Len(comments[t].followingCommits) }

\* the commit-entries that occur after the first surviving comment
CommitsAfterFirstTurn ==
  { c \in CommitEntryIndexes : \E j \in SurvivorIndexes : j < c }

(***************************************************************************)
(* C26.  Commit conservation: every commit-entry after the first surviving *)
(* comment is attached to exactly one Turn, once; every commit-entry       *)
(* before it is attached to none; each Turn's attached commits are in page *)
(* order; so the attached commits number as many as the commit-entries     *)
(* after the first surviving comment.                                      *)
(***************************************************************************)
C26_CommitConservation ==
  Reconstructed =>
    /\ \A c \in CommitsAfterFirstTurn :
         Cardinality({ a \in Attachments : comments[a[1]].followingCommits[a[2]] = c }) = 1
    /\ \A c \in CommitEntryIndexes \ CommitsAfterFirstTurn :
         ~\E a \in Attachments : comments[a[1]].followingCommits[a[2]] = c
    /\ \A t \in 1..Len(comments) : \A k \in 1..(Len(comments[t].followingCommits) - 1) :
         comments[t].followingCommits[k] < comments[t].followingCommits[k + 1]
    /\ Cardinality(Attachments) = Cardinality(CommitsAfterFirstTurn)

\* of two commits around a comment, the one before it is attached nowhere
\* and the one after it is attached to its Turn
C26_Witness ==
  /\ Reconstructed
  /\ Len(timelineItems) = 3
  /\ CommitEntryIndexes = { 0, 2 }
  /\ Len(comments) = 1
  /\ comments[1].index = 1
  /\ comments[1].followingCommits = << 2 >>

(***************************************************************************)
(* C27.  The transition from the simplified to the original view gives     *)
(* the discussion's display style the value it had before the pass hid     *)
(* it, the value saved in originalState, whatever that value was.          *)
(***************************************************************************)
C27_RestoresSavedDisplay ==
  (Reconstructed /\ ~isSimplified) =>
    /\ originalState # <<>>
    /\ discussionDisplay = originalState[1].discussionDisplay

====
